---- MODULE Spec2Model ----
(***************************************************************************)
(* Hook handlers of sig-agent-marketplace: hook-monitor/hook_handler.py,   *)
(* sig-agent-skills/sig_agent_hook_handler.py and                          *)
(* sig-agent/sig_agent_hook_handler.py.  One run of one handler is a       *)
(* linear pass: resolve configuration, read standard input, (sig-agent)    *)
(* parse the transcript, POST the hook payload, (sig-agent) POST the log   *)
(* payload, exit.                                                          *)
(*                                                                         *)
(* Text is modelled as a sequence of atoms.  The atoms of a header string  *)
(* are the words "Authorization=Bearer", "abc123",                         *)
(* "Content-Type=application/json" and the characters " " and ",".         *)
(***************************************************************************)
EXTENDS Integers, Sequences, FiniteSets, TLC

VARIABLES variant, env, stdin, pc, exit_status, sigagent_token, hook_data,
          transcript_file, transcript_records, posts, reads, upload_calls,
          out, caught, ssl_context

vars == <<variant, env, stdin, pc, exit_status, sigagent_token, hook_data,
          transcript_file, transcript_records, posts, reads, upload_calls,
          out, caught, ssl_context>>

(* ---------------------------------------------------------------- bounds *)
MaxHeaderLen == 5
MaxLines == 4
MaxRunLines == 2

(* ------------------------------------------------------------ text atoms *)
AB == "Authorization=Bearer"
SP == " "
COMMA == ","
TOK == "abc123"
CT == "Content-Type=application/json"

HeaderAtoms == {AB, SP, COMMA, TOK, CT}

BearerPrefix == <<AB, SP>>

HookSuffix == <<"/v0/claude/hook">>
LogSuffix == <<"/v0/claude/log">>
BaseUrl == <<"https://x.example/fastapi">>

RECURSIVE StringsUpTo(_, _)
StringsUpTo(atoms, n) ==
  IF n = 0 THEN {<<>>}
  ELSE LET shorter == StringsUpTo(atoms, n - 1)
       IN shorter \cup {Append(s, a) : s \in {t \in shorter : Len(t) = n - 1}, a \in atoms}

(* An environment variable: unset (os.getenv gives None) or set to a text. *)
Unset == [set |-> FALSE, val |-> <<>>]
SetTo(text) == [set |-> TRUE, val |-> text]

(* Python truth of an os.getenv result: None and "" are false.             *)
Truthy(e) == e.set /\ e.val /= <<>>

(* str.startswith *)
StartsWith(s, p) == Len(s) >= Len(p) /\ SubSeq(s, 1, Len(p)) = p

(* str.strip: drop the whitespace at both ends *)
RECURSIVE LStrip(_)
LStrip(s) == IF s /= <<>> /\ Head(s) = SP THEN LStrip(Tail(s)) ELSE s

RECURSIVE RStrip(_)
RStrip(s) == IF s /= <<>> /\ s[Len(s)] = SP THEN RStrip(SubSeq(s, 1, Len(s) - 1)) ELSE s

Strip(s) == RStrip(LStrip(s))

(* str.split(','): every comma separates, empty parts are kept *)
RECURSIVE SplitFrom(_, _, _)
SplitFrom(s, cur, acc) ==
  IF s = <<>> THEN Append(acc, cur)
  ELSE IF Head(s) = COMMA THEN SplitFrom(Tail(s), <<>>, Append(acc, cur))
  ELSE SplitFrom(Tail(s), Append(cur, Head(s)), acc)

Split(s) == SplitFrom(s, <<>>, <<>>)

(* str.replace(p, ''): every non-overlapping occurrence of p, left to right *)
RECURSIVE RemoveAll(_, _)
RemoveAll(s, p) ==
  IF s = <<>> THEN <<>>
  ELSE IF StartsWith(s, p) THEN RemoveAll(SubSeq(s, Len(p) + 1, Len(s)), p)
  ELSE <<Head(s)>> \o RemoveAll(Tail(s), p)

(* main, lines 164-175: the loop over the header parts, with its break *)
RECURSIVE ScanParts(_, _)
ScanParts(parts, i) ==
  IF i > Len(parts) THEN Unset
  ELSE LET part == Strip(parts[i])
       IN IF StartsWith(part, BearerPrefix)
          THEN SetTo(RemoveAll(part, BearerPrefix))
          ELSE ScanParts(parts, i + 1)

ExtractToken(otel_headers) ==
  IF Truthy(otel_headers) THEN ScanParts(Split(otel_headers.val), 1) ELSE Unset


(* ------------------------------------------------------- standard input *)
StdinNotJson == "not json"
StdinArray == "[1]"
StdinEmptyObject == "{}"
StdinEmptyPath == "{\"transcript_path\": \"\"}"
StdinWithPath == "{\"transcript_path\": \"/t.jsonl\"}"

StdinInputs == {StdinNotJson, StdinArray, StdinEmptyObject, StdinEmptyPath, StdinWithPath}

NoData == [ok |-> FALSE, is_object |-> FALSE, transcript_path |-> Unset]

(* json.loads(hook_stdin) followed by hook_data.get('transcript_path'):    *)
(* ok is false on JSONDecodeError, is_object is false when the value has   *)
(* no .get (AttributeError), transcript_path is None when the key is       *)
(* missing.                                                                *)
JsonLoads(text) ==
  CASE text = StdinNotJson -> NoData
    [] text = StdinArray -> [ok |-> TRUE, is_object |-> FALSE, transcript_path |-> Unset]
    [] text = StdinEmptyObject -> [ok |-> TRUE, is_object |-> TRUE, transcript_path |-> Unset]
    [] text = StdinEmptyPath -> [ok |-> TRUE, is_object |-> TRUE, transcript_path |-> SetTo(<<>>)]
    [] text = StdinWithPath -> [ok |-> TRUE, is_object |-> TRUE, transcript_path |-> SetTo(<<"/t.jsonl">>)]

(* ----------------------------------------------------------- transcript *)
RecA == "{\"a\": 1}"
RecB == "{\"b\": 2}"
Bad == "{bad"

(* The lines a transcript file is made of: empty, blank, a record, a       *)
(* record surrounded by whitespace, a malformed line.                      *)
LineSet == {<<>>, <<SP>>, <<RecA>>, <<SP, RecB, SP>>, <<Bad>>}

NoFile == [state |-> "none", lines |-> <<>>]

FilesUpTo(n) ==
  {[state |-> "missing", lines |-> <<>>], [state |-> "unreadable", lines |-> <<>>]}
    \cup {[state |-> "ok", lines |-> l] : l \in StringsUpTo(LineSet, n)}

(* json.loads(line) of a stripped, non-empty line *)
LineIsJson(line) == line \in {<<RecA>>, <<RecB>>}

LineValue(line) == IF line = <<RecA>> THEN [key |-> "a", val |-> 1] ELSE [key |-> "b", val |-> 2]

(* The loop goes past a malformed line instead of stopping at it. *)
RECURSIVE ParseLoop_Continue(_, _, _)
ParseLoop_Continue(lines, line_num, parsed_records) ==
  IF line_num > Len(lines) THEN [records |-> parsed_records, errors |-> 0]
  ELSE LET line == Strip(lines[line_num])
       IN IF line = <<>> \/ ~LineIsJson(line)
          THEN ParseLoop_Continue(lines, line_num + 1, parsed_records)
          ELSE ParseLoop_Continue(lines, line_num + 1, Append(parsed_records, LineValue(line)))

(* parse_transcript_file, lines 94-105: the loop over the lines; errors is *)
(* the number of log(..., is_error=True) calls it makes.                   *)
RECURSIVE ParseLoop(_, _, _)
ParseLoop(lines, line_num, parsed_records) ==
  IF line_num > Len(lines) THEN [records |-> parsed_records, errors |-> 0]
  ELSE LET line == Strip(lines[line_num])
       IN IF line = <<>> THEN ParseLoop(lines, line_num + 1, parsed_records)
          ELSE IF LineIsJson(line)
               THEN ParseLoop(lines, line_num + 1, Append(parsed_records, LineValue(line)))
               ELSE [records |-> parsed_records, errors |-> 2]

(* parse_transcript_file, lines 85-112 *)
parse_transcript_file(file) ==
  IF file.state = "ok" THEN ParseLoop(file.lines, 1, <<>>)
  ELSE [records |-> <<>>, errors |-> 1]

(* ------------------------------------------------------------- logging *)
NoOutput == [stderr |-> 0, debuglog |-> 0, errdiag |-> 0]

(* log(), lines 31-49, called infos times without and errors times with    *)
(* is_error=True: nothing when SIG_AGENT_DEBUG is unset or empty, a line   *)
(* of the debug log otherwise, "Logger error" on stderr when the log file  *)
(* cannot be written.  errdiag counts the error calls that left a trace.   *)
log(o, e, infos, errors) ==
  IF ~Truthy(e.debug) THEN o
  ELSE IF e.log_writable
       THEN [o EXCEPT !.debuglog = @ + infos + errors, !.errdiag = @ + errors]
       ELSE [o EXCEPT !.stderr = @ + infos + errors, !.errdiag = @ + errors]

(* print(..., file=sys.stderr) *)
eprint(o) == [o EXCEPT !.stderr = @ + 1, !.errdiag = @ + 1]

(* the interpreter's traceback of an exception nobody catches *)
traceback(o) == [o EXCEPT !.stderr = @ + 1]

(* ------------------------------------------------------------------ TLS *)
NoContext == [mode |-> "none", warned |-> FALSE, infos |-> 0, errors |-> 0]

(* create_ssl_context, lines 51-83.  certifi is "ok", "unavailable"        *)
(* (ImportError) or "fails" (create_default_context raises); system_store  *)
(* is "ok", "no_certs" (get_ca_certs() is empty) or "fails".  warned tells *)
(* whether the WARNING line of line 82 left a trace.                       *)
create_ssl_context(e) ==
  IF e.certifi = "ok"
  THEN [mode |-> "certifi", warned |-> FALSE, infos |-> 1, errors |-> 0]
  ELSE LET first == IF e.certifi = "fails" THEN 1 ELSE 0
       IN IF e.system_store = "ok"
          THEN [mode |-> "system", warned |-> FALSE, infos |-> 1, errors |-> first]
          ELSE [mode |-> "unverified", warned |-> Truthy(e.debug) /\ e.log_writable,
                infos |-> 0, errors |-> first + 2]


(* ---------------------------------------------------------- environment *)
UrlValues == {Unset, SetTo(<<>>), SetTo(BaseUrl)}
TokenValues == {Unset, SetTo(<<>>), SetTo(<<TOK>>)}
DebugValues == {Unset, SetTo(<<>>), SetTo(<<"1">>)}
StoreStates == {"ok", "no_certs", "fails"}
CertifiStates == {"ok", "unavailable", "fails"}

(* The header strings a run of main is started with *)
HeaderValues ==
  {Unset, SetTo(<<>>), SetTo(<<CT>>),
   SetTo(<<CT, COMMA, AB, SP, TOK>>),
   SetTo(<<SP, AB, SP, TOK, COMMA, AB, SP, CT>>)}

(* Environment variables and surroundings the variant never looks at *)
Quiet == [url |-> Unset, token |-> Unset, otel_headers |-> Unset, debug |-> Unset,
          log_writable |-> TRUE, home_tmp_writable |-> TRUE,
          certifi |-> "ok", system_store |-> "ok"]

Idle ==
  /\ exit_status = -1
  /\ sigagent_token = Unset
  /\ hook_data = NoData
  /\ transcript_file = NoFile
  /\ transcript_records = <<>>
  /\ posts = <<>>
  /\ reads = 0
  /\ upload_calls = 0
  /\ out = NoOutput
  /\ caught = {}
  /\ ssl_context = NoContext

InitSigAgent ==
  /\ variant = "sig-agent"
  /\ \E u \in UrlValues, h \in HeaderValues, d \in DebugValues, w \in BOOLEAN,
        c \in CertifiStates, st \in StoreStates :
       env = [Quiet EXCEPT !.url = u, !.otel_headers = h, !.debug = d,
                           !.log_writable = w, !.certifi = c, !.system_store = st]
  /\ stdin \in StdinInputs
  /\ pc = "start"
  /\ Idle

InitSkills ==
  /\ variant = "sig-agent-skills"
  /\ \E u \in UrlValues, t \in TokenValues : env = [Quiet EXCEPT !.url = u, !.token = t]
  /\ stdin \in StdinInputs
  /\ pc = "start"
  /\ Idle

InitHookMonitor ==
  /\ variant = "hook-monitor"
  /\ \E u \in UrlValues, t \in TokenValues, w \in BOOLEAN :
       env = [Quiet EXCEPT !.url = u, !.token = t, !.home_tmp_writable = w]
  /\ stdin \in StdinInputs
  /\ pc = "start"
  /\ Idle

Init == InitSigAgent \/ InitSkills \/ InitHookMonitor

(* sys.exit(status), or the end of main with status 0 *)
Exit(status) == pc' = "exited" /\ exit_status' = status

(* What urlopen(req, timeout=30) can do: return a 2xx response, raise      *)
(* HTTPError for a status >= 400, raise URLError for a transport failure,  *)
(* or time out.                                                            *)
UrlopenOutcomes == {"2xx", "http_error", "url_error", "timeout"}

(* What requests.post(..., timeout=30) can do: return a 2xx response,      *)
(* return a response with a status >= 400, or raise RequestException       *)
(* (transport failure, timeout).                                           *)
RequestsOutcomes == {"2xx", "status_ge_400", "request_exception", "timeout"}

FailureOf(outcome) ==
  CASE outcome \in {"http_error", "status_ge_400"} -> {"http_status"}
    [] outcome \in {"url_error", "request_exception"} -> {"transport"}
    [] outcome = "timeout" -> {"timeout"}
    [] OTHER -> {}

Request(url, token) == [target |-> url, authorization |-> token]

(* -------------------------------------------------------- sig-agent main *)
(* The check of the token is left out. *)
SigAgentConfigured_UrlOnly(sigagent_url, token) == Truthy(sigagent_url)

(* lines 177-184: both required values are present *)
SigAgentConfigured(sigagent_url, token) == Truthy(sigagent_url) /\ Truthy(token)

(* main, lines 158-187: resolve the endpoint and the bearer token, leave   *)
(* with status 1 when one of them is missing.                              *)
SA_ResolveConfig ==
  /\ variant = "sig-agent" /\ pc = "start"
  /\ LET token == ExtractToken(env.otel_headers)
     IN /\ sigagent_token' = token
        /\ IF SigAgentConfigured(env.url, token)
           THEN /\ pc' = "read_stdin"
                /\ out' = log(out, env, 1, 0)
                /\ UNCHANGED <<exit_status, caught>>
           ELSE /\ Exit(1)
                /\ out' = log(out, env, 1, 1)
                /\ caught' = caught \cup {"config"}
  /\ UNCHANGED <<variant, env, stdin, hook_data, transcript_file, transcript_records,
                 posts, reads, upload_calls, ssl_context>>

(* line 197: transcript_path is present and not empty *)
HasTranscriptPath(data) == Truthy(data.transcript_path)

(* main, lines 189-203: read standard input, parse it, take transcript_path *)
SA_ReadStdin ==
  /\ variant = "sig-agent" /\ pc = "read_stdin"
  /\ LET data == JsonLoads(stdin)
     IN /\ hook_data' = data
        /\ IF ~data.ok
           THEN /\ Exit(1)
                /\ out' = log(out, env, 0, 1)
                /\ caught' = caught \cup {"stdin"}
           ELSE IF ~data.is_object
           THEN /\ Exit(1)
                /\ out' = traceback(out)
                /\ UNCHANGED caught
           ELSE IF ~HasTranscriptPath(data)
           THEN /\ Exit(1)
                /\ out' = log(out, env, 0, 1)
                /\ caught' = caught \cup {"no_transcript_path"}
           ELSE /\ pc' = "parse_transcript"
                /\ UNCHANGED <<exit_status, out, caught>>
  /\ UNCHANGED <<variant, env, stdin, sigagent_token, transcript_file, transcript_records,
                 posts, reads, upload_calls, ssl_context>>

(* A transcript that cannot be opened ends the run. *)
SA_ParseTranscript_Fatal ==
  /\ variant = "sig-agent" /\ pc = "parse_transcript"
  /\ \E file \in FilesUpTo(MaxRunLines) :
       LET result == parse_transcript_file(file)
       IN /\ transcript_file' = file
          /\ transcript_records' = result.records
          /\ out' = log(out, env, 2, result.errors)
          /\ caught' = IF result.errors > 0 THEN caught \cup {"transcript"} ELSE caught
          /\ IF file.state = "ok"
             THEN pc' = "hook_post" /\ UNCHANGED exit_status
             ELSE Exit(1)
  /\ reads' = reads + 1
  /\ UNCHANGED <<variant, env, stdin, sigagent_token, hook_data, posts,
                 upload_calls, ssl_context>>

(* main, lines 205-208: parse the transcript the event names *)
SA_ParseTranscript ==
  /\ variant = "sig-agent" /\ pc = "parse_transcript"
  /\ \E file \in FilesUpTo(MaxRunLines) :
       LET result == parse_transcript_file(file)
       IN /\ transcript_file' = file
          /\ transcript_records' = result.records
          /\ out' = log(out, env, 2, result.errors)
          /\ caught' = IF result.errors > 0 THEN caught \cup {"transcript"} ELSE caught
  /\ reads' = reads + 1
  /\ pc' = "hook_post"
  /\ UNCHANGED <<variant, env, stdin, exit_status, sigagent_token, hook_data, posts,
                 upload_calls, ssl_context>>

(* A hook POST that failed is sent again. *)
SA_HookPost_Retry ==
  /\ variant = "sig-agent" /\ pc = "hook_post"
  /\ LET ctx == create_ssl_context(env)
     IN /\ ssl_context' = ctx
        /\ posts' = Append(posts, Request(env.url.val \o HookSuffix, sigagent_token.val))
        /\ \E outcome \in UrlopenOutcomes :
             IF outcome = "2xx"
             THEN /\ pc' = "upload"
                  /\ out' = log(out, env, ctx.infos, ctx.errors)
                  /\ UNCHANGED <<exit_status, caught>>
             ELSE /\ UNCHANGED <<pc, exit_status>>
                  /\ out' = log(out, env, ctx.infos, ctx.errors + 1)
                  /\ caught' = caught \cup FailureOf(outcome)
  /\ UNCHANGED <<variant, env, stdin, sigagent_token, hook_data, transcript_file,
                 transcript_records, reads, upload_calls>>

(* main, lines 210-250: POST the hook payload; urlopen raises on every     *)
(* outcome but a 2xx response, and the except clauses of lines 244-250     *)
(* end main.                                                               *)
SA_HookPost ==
  /\ variant = "sig-agent" /\ pc = "hook_post"
  /\ LET ctx == create_ssl_context(env)
     IN /\ ssl_context' = ctx
        /\ posts' = Append(posts, Request(env.url.val \o HookSuffix, sigagent_token.val))
        /\ \E outcome \in UrlopenOutcomes :
             IF outcome = "2xx"
             THEN /\ pc' = "upload"
                  /\ out' = log(out, env, ctx.infos, ctx.errors)
                  /\ UNCHANGED <<exit_status, caught>>
             ELSE /\ Exit(0)
                  /\ out' = log(out, env, ctx.infos, ctx.errors + 1)
                  /\ caught' = caught \cup FailureOf(outcome)
  /\ UNCHANGED <<variant, env, stdin, sigagent_token, hook_data, transcript_file,
                 transcript_records, reads, upload_calls>>

(* main, line 242, and upload_to_log_service, lines 114-156 *)
SA_Upload ==
  /\ variant = "sig-agent" /\ pc = "upload"
  /\ upload_calls' = upload_calls + 1
  /\ LET ctx == create_ssl_context(env)
     IN /\ ssl_context' = ctx
        /\ posts' = Append(posts, Request(env.url.val \o LogSuffix, sigagent_token.val))
        /\ \E outcome \in UrlopenOutcomes :
             /\ out' = log(out, env, ctx.infos + (IF outcome = "2xx" THEN 1 ELSE 0),
                           ctx.errors + (IF outcome = "2xx" THEN 0 ELSE 1))
             /\ caught' = caught \cup FailureOf(outcome)
  /\ Exit(0)
  /\ UNCHANGED <<variant, env, stdin, sigagent_token, hook_data, transcript_file,
                 transcript_records, reads>>

(* ------------------------------------------------- sig-agent-skills main *)
(* lines 16-23: both required values are present *)
SkillsConfigured(hook_monitor_url, hook_monitor_token) ==
  Truthy(hook_monitor_url) /\ Truthy(hook_monitor_token)

(* main, lines 11-23 *)
SK_CheckConfig ==
  /\ variant = "sig-agent-skills" /\ pc = "start"
  /\ IF SkillsConfigured(env.url, env.token)
     THEN /\ pc' = "hook_post"
          /\ UNCHANGED <<exit_status, out, caught>>
     ELSE /\ Exit(1)
          /\ out' = eprint(out)
          /\ caught' = caught \cup {"config"}
  /\ UNCHANGED <<variant, env, stdin, sigagent_token, hook_data, transcript_file,
                 transcript_records, posts, reads, upload_calls, ssl_context>>

(* main, lines 25-64: standard input is forwarded as text, never parsed *)
SK_HookPost ==
  /\ variant = "sig-agent-skills" /\ pc = "hook_post"
  /\ posts' = Append(posts, Request(env.url.val, env.token.val))
  /\ \E outcome \in UrlopenOutcomes :
       /\ out' = IF outcome = "2xx" THEN out ELSE eprint(out)
       /\ caught' = caught \cup FailureOf(outcome)
  /\ Exit(0)
  /\ UNCHANGED <<variant, env, stdin, sigagent_token, hook_data, transcript_file,
                 transcript_records, reads, upload_calls, ssl_context>>

(* ----------------------------------------------------- hook-monitor main *)
(* main, lines 11-21: read standard input and append it to                 *)
(* ~/tmp/tool_input.jsonl; an open() that fails is caught by nobody.       *)
HM_ReadAndSave ==
  /\ variant = "hook-monitor" /\ pc = "start"
  /\ IF env.home_tmp_writable
     THEN /\ pc' = "hook_post"
          /\ UNCHANGED <<exit_status, out>>
     ELSE /\ Exit(1)
          /\ out' = traceback(out)
  /\ UNCHANGED <<variant, env, stdin, sigagent_token, hook_data, transcript_file,
                 transcript_records, posts, reads, upload_calls, caught, ssl_context>>

(* main, lines 23-59: POST when the URL is set, say so when it is not *)
HM_Forward ==
  /\ variant = "hook-monitor" /\ pc = "hook_post"
  /\ IF Truthy(env.url)
     THEN /\ posts' = Append(posts, Request(env.url.val, env.token.val))
          /\ \E outcome \in RequestsOutcomes :
               /\ out' = IF outcome = "2xx" THEN out ELSE eprint(out)
               /\ caught' = caught \cup FailureOf(outcome)
     ELSE /\ out' = eprint(out)
          /\ UNCHANGED <<posts, caught>>
  /\ Exit(0)
  /\ UNCHANGED <<variant, env, stdin, sigagent_token, hook_data, transcript_file,
                 transcript_records, reads, upload_calls, ssl_context>>

Next ==
  \/ SA_ResolveConfig
  \/ SA_ReadStdin
  \/ SA_ParseTranscript
  \/ SA_HookPost
  \/ SA_Upload
  \/ SK_CheckConfig
  \/ SK_HookPost
  \/ HM_ReadAndSave
  \/ HM_Forward

Spec == Init /\ [][Next]_vars

(* ------------------------------ the token extraction of main, on its own *)
InitToken ==
  /\ variant = "sig-agent"
  /\ \E h \in {Unset} \cup {SetTo(t) : t \in StringsUpTo(HeaderAtoms, MaxHeaderLen)} :
       env = [Quiet EXCEPT !.url = SetTo(BaseUrl), !.otel_headers = h]
  /\ stdin = StdinWithPath
  /\ pc = "extract_token"
  /\ Idle

(* main, lines 164-175 *)
TokenStep ==
  /\ pc = "extract_token"
  /\ sigagent_token' = ExtractToken(env.otel_headers)
  /\ pc' = "token_extracted"
  /\ UNCHANGED <<variant, env, stdin, exit_status, hook_data, transcript_file,
                 transcript_records, posts, reads, upload_calls, out, caught, ssl_context>>

NextToken == TokenStep

SpecToken == InitToken /\ [][NextToken]_vars

(* --------------------------------- parse_transcript_file, on its own *)
InitParse ==
  /\ variant = "sig-agent"
  /\ \E d \in DebugValues : env = [Quiet EXCEPT !.debug = d]
  /\ stdin = StdinWithPath
  /\ pc = "parse_only"
  /\ exit_status = -1
  /\ sigagent_token = Unset
  /\ hook_data = NoData
  /\ transcript_file \in FilesUpTo(MaxLines)
  /\ transcript_records = <<>>
  /\ posts = <<>>
  /\ reads = 0
  /\ upload_calls = 0
  /\ out = NoOutput
  /\ caught = {}
  /\ ssl_context = NoContext

(* parse_transcript_file, lines 85-112 *)
ParseStep ==
  /\ pc = "parse_only"
  /\ LET result == parse_transcript_file(transcript_file)
     IN /\ transcript_records' = result.records
        /\ out' = log(out, env, 0, result.errors)
        /\ caught' = IF result.errors > 0 THEN caught \cup {"transcript"} ELSE caught
  /\ reads' = reads + 1
  /\ pc' = "parsed"
  /\ UNCHANGED <<variant, env, stdin, exit_status, sigagent_token, hook_data,
                 transcript_file, posts, upload_calls, ssl_context>>

NextParse == ParseStep

SpecParse == InitParse /\ [][NextParse]_vars


(* ---------------------------------------------------------------- claims *)
HookUrl == BaseUrl \o HookSuffix
LogUrl == BaseUrl \o LogSuffix

(* The header list has an entry that, trimmed, starts with the prefix. *)
BearerEntries(h) ==
  IF Truthy(h)
  THEN {i \in 1..Len(Split(h.val)) : StartsWith(Strip(Split(h.val)[i]), BearerPrefix)}
  ELSE {}

ConfigMissing ==
  \/ variant = "sig-agent-skills" /\ (~Truthy(env.url) \/ ~Truthy(env.token))
  \/ variant = "sig-agent" /\ (~Truthy(env.url) \/ BearerEntries(env.otel_headers) = {})

StdinUnparseable == variant = "sig-agent" /\ stdin = StdinNotJson

(* C1: in sig-agent-skills and sig-agent, when a required value is absent  *)
(* or empty, or (sig-agent) standard input is not JSON, no POST is ever    *)
(* attempted, the run never gets past reading its input, and it ends with  *)
(* a non-zero exit status.                                                 *)
C1_NoPostWithoutConfig ==
  (ConfigMissing \/ StdinUnparseable) =>
     /\ posts = <<>>
     /\ pc \in {"start", "read_stdin", "exited"}
     /\ (pc = "exited" => exit_status > 0)

C1_Witness ==
  /\ variant = "sig-agent"
  /\ env.otel_headers = SetTo(<<CT>>)
  /\ Truthy(env.url)
  /\ pc = "exited"
  /\ exit_status = 1
  /\ posts = <<>>

(* C2: in sig-agent, once the hook POST has been attempted, the run calls  *)
(* upload_to_log_service exactly once before it ends, whatever the hook    *)
(* POST's outcome.                                                         *)
C2_UploadAfterEveryHookPost ==
  (variant = "sig-agent" /\ pc = "exited" /\ Len(posts) >= 1) => upload_calls = 1

ObjectWithoutPath ==
  /\ variant \in {"sig-agent", "sig-agent-skills"}
  /\ ~ConfigMissing
  /\ stdin = StdinEmptyObject

(* C3: a JSON object without transcript_path on standard input, with the   *)
(* configuration present, gives exactly one hook POST and no transcript    *)
(* read.                                                                   *)
C3_OnePostNoRead ==
  ObjectWithoutPath => (reads = 0 /\ (pc = "exited" => Len(posts) = 1))

(* C4: the exit status is non-zero exactly when a required environment    *)
(* variable is missing or the required standard input is not JSON; every   *)
(* other run ends with status 0 (stated for the runs whose local input log *)
(* can be written).                                                        *)
C4_ExitStatus ==
  (pc = "exited" /\ env.home_tmp_writable) =>
     ((exit_status /= 0) <=> (ConfigMissing \/ StdinUnparseable))

(* The lines of a file that are not empty once trimmed *)
NonBlank(lines) == SelectSeq(lines, LAMBDA l : Strip(l) /= <<>>)

Malformed(lines) == {i \in 1..Len(lines) : ~LineIsJson(Strip(lines[i]))}

(* C5: for a file whose non-blank lines are N records, one malformed line  *)
(* and M more records, parse_transcript_file returns the first N records   *)
(* in file order; blank lines neither count nor stop the parse.            *)
C5_ValidPrefix ==
  (pc = "parsed" /\ transcript_file.state = "ok"
     /\ Cardinality(Malformed(NonBlank(transcript_file.lines))) = 1) =>
    LET nb == NonBlank(transcript_file.lines)
        n == (CHOOSE i \in Malformed(nb) : TRUE) - 1
    IN transcript_records = [i \in 1..n |-> LineValue(Strip(nb[i]))]

C5_Witness ==
  /\ pc = "parsed"
  /\ transcript_file.state = "ok"
  /\ LET nb == NonBlank(transcript_file.lines)
     IN /\ Len(nb) < Len(transcript_file.lines)
        /\ Malformed(nb) = {2}
        /\ Len(nb) = 3
  /\ Len(transcript_records) = 1

(* C6: a transcript that does not exist or cannot be opened gives no       *)
(* records and does not end the run: the hook POST is still attempted and  *)
(* the run ends with status 0.                                             *)
C6_MissingTranscriptNotFatal ==
  (variant = "sig-agent" /\ transcript_file.state \in {"missing", "unreadable"}) =>
     /\ transcript_records = <<>>
     /\ pc \in {"hook_post", "upload", "exited"}
     /\ (pc = "exited" => Len(posts) >= 1 /\ posts[1].target = HookUrl /\ exit_status = 0)

C6_Witness ==
  /\ variant = "sig-agent"
  /\ transcript_file.state = "missing"
  /\ pc = "exited"
  /\ transcript_records = <<>>
  /\ Len(posts) = 2

(* C7: a run in which the handler caught a failure has emitted at least    *)
(* one diagnostic, on standard error or in the debug log, by the time it   *)
(* ends, whatever SIG_AGENT_DEBUG is.                                      *)
C7_NoSilentFailure ==
  (pc = "exited" /\ caught /= {}) => out.errdiag > 0

(* The text after the prefix in the first entry that, trimmed, starts with *)
(* the prefix.                                                             *)
ExpectedToken(h) ==
  IF BearerEntries(h) = {} THEN Unset
  ELSE LET first == CHOOSE i \in BearerEntries(h) : \A j \in BearerEntries(h) : i <= j
           part == Strip(Split(h.val)[first])
       IN SetTo(SubSeq(part, Len(BearerPrefix) + 1, Len(part)))

(* C8: the resolved token is the text after 'Authorization=Bearer ' in the *)
(* first trimmed entry that starts with it, and 'abc123' for the header    *)
(* string 'Content-Type=application/json,Authorization=Bearer abc123'.     *)
C8_TokenIsTextAfterPrefix ==
  pc = "token_extracted" =>
     /\ sigagent_token = ExpectedToken(env.otel_headers)
     /\ (env.otel_headers = SetTo(<<CT, COMMA, AB, SP, TOK>>) => sigagent_token = SetTo(<<TOK>>))

(* C9: create_ssl_context gives an unverified context only when neither    *)
(* the certifi bundle nor the platform store gave a verifying one, and     *)
(* never without its warning having been emitted.                          *)
C9_UnverifiedOnlyWithWarning ==
  ssl_context.mode = "unverified" =>
     /\ env.certifi /= "ok"
     /\ env.system_store /= "ok"
     /\ ssl_context.warned

(* C10: no endpoint gets a second POST: at most two POSTs in sig-agent, at *)
(* most one in the other variants, all to different targets, and in        *)
(* sig-agent the log POST only after the hook POST.                        *)
C10_NoRetry ==
  /\ Len(posts) <= (IF variant = "sig-agent" THEN 2 ELSE 1)
  /\ \A i, j \in 1..Len(posts) : posts[i].target = posts[j].target => i = j
  /\ \A i \in 1..Len(posts) :
       (variant = "sig-agent" /\ posts[i].target = LogUrl) => (i = 2 /\ posts[1].target = HookUrl)
  /\ upload_calls <= 1

C10_Witness ==
  /\ variant = "sig-agent"
  /\ pc = "exited"
  /\ Len(posts) = 1
  /\ posts[1].target = HookUrl
  /\ "timeout" \in caught

====
